---- MODULE Spec2Model ----
(***************************************************************************)
(* Model of the handybars tokenizer (src/src/parse.rs) and of the          *)
(* Variable string parser (src/src/lib.rs).                                *)
(*                                                                         *)
(* A text is a sequence of one-byte characters.  Rust indexes from 0 and   *)
(* TLA+ sequences from 1; At and Slice do the conversion so that every     *)
(* index below is the index the source uses.                               *)
(***************************************************************************)
EXTENDS Integers, Sequences, FiniteSets, TLC

VARIABLES input, pc, head, tail, row, col, tokens, result

vars == <<input, pc, head, tail, row, col, tokens, result>>

\* Longest input explored.
MaxLen == 6

NL == "\n"
\* The bytes inputs are built from: a name byte, a blank, and every byte the
\* scanner treats specially.
Alphabet == {"a", " ", ".", NL, "{", "}"}

Inputs == UNION {[1..n -> Alphabet] : n \in 0..MaxLen}

\* input[i]
At(s, i) == s[i + 1]
\* &input[a..b]
Slice(s, a, b) == SubSeq(s, a + 1, b)

----------------------------------------------------------------------------
(* parse.rs: errors *)

EmptyVariableSegment == "EmptyVariableSegment"
NewlineInVariableSegment == "NewlineInVariableSegment"

\* Error::new
ErrorNew(offset, ty) == [kind |-> "Err", offset |-> offset, ty |-> ty]

\* Error::add_offset
add_offset(e, offset) ==
    [e EXCEPT !.offset = <<e.offset[1] + offset[1], e.offset[2] + offset[2]>>]

NoneResult == [kind |-> "None"]
Panic == [kind |-> "Panic"]

\* str_from_utf8: every byte of Alphabet is a one-byte UTF-8 character, so
\* every slice is valid UTF-8 and the expect never fires.
str_from_utf8(chars) == chars

----------------------------------------------------------------------------
(* lib.rs: Variable *)

\* Variable::from_parts
from_parts(parts) == [inner |-> "Segments", parts |-> parts]

\* s.split('.'): the pieces between the dots; "" splits into one empty piece.
RECURSIVE SplitFrom(_, _, _)
SplitFrom(s, start, i) ==
    IF i >= Len(s) THEN <<Slice(s, start, Len(s))>>
    ELSE IF At(s, i) = "." THEN <<Slice(s, start, i)>> \o SplitFrom(s, i + 1, i + 1)
    ELSE SplitFrom(s, start, i + 1)

split(s) == SplitFrom(s, 0, 0)

\* from_str_loop with the separator left out of the running offset.
RECURSIVE from_str_loop_no_separator(_, _, _)
from_str_loop_no_separator(segments, k, offset) ==
    IF k > Len(segments) THEN [kind |-> "Ok", var |-> from_parts(segments)]
    ELSE IF segments[k] = <<>> THEN [kind |-> "Err", offset |-> offset]
    ELSE from_str_loop_no_separator(segments, k + 1, offset + Len(segments[k]))

\* The for loop of from_str over segments, k the index of the next segment.
RECURSIVE from_str_loop(_, _, _)
from_str_loop(segments, k, offset) ==
    IF k > Len(segments) THEN [kind |-> "Ok", var |-> from_parts(segments)]
    ELSE IF segments[k] = <<>> THEN [kind |-> "Err", offset |-> offset]
    ELSE from_str_loop(segments, k + 1, offset + Len(segments[k]) + 1)

\* <Variable as FromStr>::from_str
from_str(s) == from_str_loop(split(s), 1, 0)

\* Variable::from_string
from_string(s) == from_str(s)

----------------------------------------------------------------------------
(* parse.rs: the variable body parser *)

\* try_parse_variable_segment_from without the offset == 0 test on a dot.
RECURSIVE try_parse_variable_segment_any_dot(_, _)
try_parse_variable_segment_any_dot(inp, offset) ==
    IF offset >= Len(inp) THEN NoneResult
    ELSE IF At(inp, offset) = "." THEN [kind |-> "Ok", segment |-> Slice(inp, 0, offset)]
    ELSE IF At(inp, offset) = NL THEN ErrorNew(<<offset, 0>>, NewlineInVariableSegment)
    ELSE try_parse_variable_segment_any_dot(inp, offset + 1)

\* The for loop of try_parse_variable_segment, offset its loop variable.
RECURSIVE try_parse_variable_segment_from(_, _)
try_parse_variable_segment_from(inp, offset) ==
    IF offset >= Len(inp) THEN NoneResult
    ELSE IF At(inp, offset) = "." THEN
        IF offset = 0 THEN ErrorNew(<<offset, 0>>, EmptyVariableSegment)
        ELSE [kind |-> "Ok", segment |-> Slice(inp, 0, offset)]
    ELSE IF At(inp, offset) = NL THEN ErrorNew(<<offset, 0>>, NewlineInVariableSegment)
    ELSE try_parse_variable_segment_from(inp, offset + 1)

try_parse_variable_segment(inp) == try_parse_variable_segment_from(inp, 0)

\* The while loop of parse_template_inner, entered with the loop's variables.
RECURSIVE parse_template_inner_loop(_, _, _, _, _)
parse_template_inner_loop(inp, h, segments, r, c) ==
    IF ~(h < Len(inp)) THEN NoneResult
    ELSE IF At(inp, h) = "}" /\ h + 1 >= Len(inp) THEN Panic
    ELSE IF At(inp, h) = "}" /\ At(inp, h + 1) = "}" THEN
        IF segments = <<>> THEN ErrorNew(<<c, r>>, EmptyVariableSegment)
        ELSE [kind |-> "Ok", var |-> from_parts(segments), len |-> h + 2]
    ELSE LET seg == try_parse_variable_segment(Slice(inp, h, Len(inp))) IN
         IF seg.kind = "Err" THEN seg
         ELSE parse_template_inner_loop(inp, h + 1,
                  IF seg.kind = "Ok" THEN Append(segments, str_from_utf8(seg.segment))
                  ELSE segments,
                  r, c + 1)

parse_template_inner(inp) == parse_template_inner_loop(inp, 0, <<>>, 0, 0)

----------------------------------------------------------------------------
(* parse.rs: tokens *)

TokenStr(text) == [type |-> "Str", text |-> text]
TokenVariable(var) == [type |-> "Variable", var |-> var]

OkTokens(tks) == [kind |-> "Ok", tokens |-> tks]

----------------------------------------------------------------------------
(* parse.rs: tokenize, one action per way through an iteration of its loop *)

Init ==
    /\ input \in Inputs
    /\ pc = "start"
    /\ head = 0
    /\ tail = 0
    /\ row = 0
    /\ col = 0
    /\ tokens = <<>>
    /\ result = NoneResult

\* tokenize is called: the empty input returns at once.
TokenizeBegin ==
    /\ pc = "start"
    /\ IF input = <<>>
       THEN /\ result' = OkTokens(<<>>)
            /\ pc' = "done"
       ELSE /\ pc' = "loop"
            /\ UNCHANGED result
    /\ UNCHANGED <<input, head, tail, row, col, tokens>>

\* The loop goes on: neither the while condition nor a break ends it.
InLoop == head < Len(input) /\ ~(head >= Len(input)) /\ ~(head = Len(input) - 1)

AtOpen == At(input, head) = "{" /\ At(input, head + 1) = "{"

Inner == parse_template_inner(Slice(input, head + 2, Len(input)))

\* An iteration that parses a variable.
TokenizeVariable ==
    /\ pc = "loop"
    /\ InLoop
    /\ AtOpen
    /\ Inner.kind = "Ok"
    /\ LET newHead == head + Inner.len + 2 IN
       /\ head' = newHead
       /\ tokens' = (IF tail # newHead
                     THEN Append(tokens, TokenStr(str_from_utf8(Slice(input, tail, newHead))))
                     ELSE tokens) \o <<TokenVariable(Inner.var)>>
       /\ tail' = newHead
    /\ UNCHANGED <<input, pc, row, col, result>>

\* An iteration whose variable body is faulty.
TokenizeError ==
    /\ pc = "loop"
    /\ InLoop
    /\ AtOpen
    /\ Inner.kind = "Err"
    /\ result' = add_offset(Inner, <<col + 2, row>>)
    /\ pc' = "done"
    /\ UNCHANGED <<input, head, tail, row, col, tokens>>

\* An iteration in which parse_template_inner indexes past the end.
TokenizePanic ==
    /\ pc = "loop"
    /\ InLoop
    /\ AtOpen
    /\ Inner.kind = "Panic"
    /\ result' = Panic
    /\ pc' = "done"
    /\ UNCHANGED <<input, head, tail, row, col, tokens>>

\* An iteration that consumes one byte of literal text.
TokenizeAdvance ==
    /\ pc = "loop"
    /\ InLoop
    /\ (~AtOpen \/ Inner.kind = "None")
    /\ IF At(input, head) = NL
       THEN col' = 0 /\ row' = row + 1
       ELSE col' = col + 1 /\ row' = row
    /\ head' = head + 1
    /\ UNCHANGED <<input, pc, tail, tokens, result>>

\* The loop ends; the pending literal is flushed and the tokens returned.
TokenizeReturn ==
    /\ pc = "loop"
    /\ ~InLoop
    /\ tokens' = (IF tail # head
                  THEN Append(tokens, TokenStr(str_from_utf8(Slice(input, tail, head))))
                  ELSE tokens)
    /\ result' = OkTokens(tokens')
    /\ pc' = "done"
    /\ UNCHANGED <<input, head, tail, row, col>>

\* Variable::from_string is called on the text instead.
FromString ==
    /\ pc = "start"
    /\ result' = from_string(input)
    /\ pc' = "parsed"
    /\ UNCHANGED <<input, head, tail, row, col, tokens>>

Next ==
    \/ TokenizeBegin
    \/ TokenizeVariable
    \/ TokenizeError
    \/ TokenizePanic
    \/ TokenizeAdvance
    \/ TokenizeReturn
    \/ FromString

Spec == Init /\ [][Next]_vars

----------------------------------------------------------------------------
(* Vocabulary of the properties *)

Done == pc = "done"
Parsed == pc = "parsed"

OpenAt(s, i) == i >= 0 /\ i + 1 < Len(s) /\ At(s, i) = "{" /\ At(s, i + 1) = "{"
CloseAt(s, i) == i >= 0 /\ i + 1 < Len(s) /\ At(s, i) = "}" /\ At(s, i + 1) = "}"
NoOpen(s) == \A i \in 0..Len(s) : ~OpenAt(s, i)

\* The first "{{" of the input is at i.
FirstOpenAt(i) == OpenAt(input, i) /\ \A k \in 0..(i - 1) : ~OpenAt(input, k)

\* The text after the "{{" at i.
BodyFrom(i) == Slice(input, i + 2, Len(input))

RECURSIVE Trim(_)
Trim(s) ==
    IF s = <<>> THEN s
    ELSE IF Head(s) = " " THEN Trim(Tail(s))
    ELSE IF s[Len(s)] = " " THEN Trim(SubSeq(s, 1, Len(s) - 1))
    ELSE s

IsName(s) == s # <<>> /\ \A k \in 1..Len(s) : s[k] = "a"

\* Zero-based line and column of the byte at index i.
LineOf(s, i) == Cardinality({k \in 0..(i - 1) : At(s, k) = NL})
ColumnOf(s, i) == Cardinality({k \in 0..(i - 1) : \A m \in k..(i - 1) : At(s, m) # NL})

\* The offset in a variable body of the first fault a left-to-right reading
\* meets: a newline, a dot that ends a blank segment, or a "}}" that ends a
\* blank segment; -1 when the body has none before its "}}" or its end.
RECURSIVE FaultScan(_, _, _)
FaultScan(body, i, segStart) ==
    IF i >= Len(body) THEN -1
    ELSE IF At(body, i) = NL THEN i
    ELSE IF At(body, i) = "." THEN
        IF Trim(Slice(body, segStart, i)) = <<>> THEN i
        ELSE FaultScan(body, i + 1, i + 1)
    ELSE IF CloseAt(body, i) THEN
        IF Trim(Slice(body, segStart, i)) = <<>> THEN i ELSE -1
    ELSE FaultScan(body, i + 1, segStart)

FirstFault(body) == FaultScan(body, 0, 0)

\* The segment sequences and literal texts of a token list, in order.
View(tks) ==
    [k \in 1..Len(tks) |->
        IF tks[k].type = "Variable" THEN <<"VariableRef", tks[k].var.parts>>
        ELSE <<"Literal", tks[k].text>>]

TrimAll(pieces) == [k \in 1..Len(pieces) |-> Trim(pieces[k])]

\* input = prefix ++ "{{" ++ body ++ "}}" ++ suffix with "{{" at i, "}}" at j.
WellFormedAt(i, j) ==
    /\ OpenAt(input, i)
    /\ j >= i + 2
    /\ CloseAt(input, j)
    /\ NoOpen(Slice(input, 0, i))
    /\ NoOpen(Slice(input, j + 2, Len(input)))
    /\ \A k \in 1..Len(split(Slice(input, i + 2, j))) :
           IsName(Trim(split(Slice(input, i + 2, j))[k]))

ExpectedSplit(i, j) ==
    (IF i = 0 THEN <<>> ELSE <<(<<"Literal", Slice(input, 0, i)>>)>>)
    \o <<(<<"VariableRef", TrimAll(split(Slice(input, i + 2, j)))>>)>>
    \o (IF j + 2 = Len(input) THEN <<>>
        ELSE <<(<<"Literal", Slice(input, j + 2, Len(input))>>)>>)

----------------------------------------------------------------------------
(* Properties *)

\* C1: a well-formed "{{ a.b }}" inside literal text without "{{" tokenizes
\* to Literal(prefix) (if non-empty), one VariableRef holding the trimmed
\* segments of the body, and Literal(suffix) (if non-empty).
C1_WellFormedReferenceSplits ==
    Done => \A i \in 0..Len(input), j \in 0..Len(input) :
                WellFormedAt(i, j) =>
                    /\ result.kind = "Ok"
                    /\ View(result.tokens) = ExpectedSplit(i, j)

\* C2: an input without "{{" tokenizes to one Literal equal to the whole
\* input, last byte included, and the empty input to no tokens.
C2_NoDelimiterIsOneLiteral ==
    (Done /\ NoOpen(input)) =>
        result = OkTokens(IF input = <<>> THEN <<>> ELSE <<TokenStr(input)>>)

\* C3: an input whose "{{" is never closed by "}}", with no newline and no
\* dot after it, tokenizes successfully to one Literal equal to the whole
\* input.
C3_UnterminatedIsLiteral ==
    Done => \A i \in 0..Len(input) :
                (/\ FirstOpenAt(i)
                 /\ \A j \in 0..Len(input) : ~CloseAt(BodyFrom(i), j)
                 /\ \A k \in 1..Len(BodyFrom(i)) : BodyFrom(i)[k] \notin {NL, "."})
                => result = OkTokens(<<TokenStr(input)>>)

\* The body text before offset f has no dot next to a blank segment.
NoBlankPieceBefore(body, f) ==
    \/ Len(split(Slice(body, 0, f))) = 1
    \/ \A k \in 1..Len(split(Slice(body, 0, f))) : Trim(split(Slice(body, 0, f))[k]) # <<>>

\* C4: when a newline lies in an open variable body, with no "}}" and no
\* dot beside a blank segment before it, tokenize fails with
\* NewlineInVariableSegment at the column and line of that newline byte in
\* the input.
C4_NewlineInBodyIsReportedAtNewline ==
    Done => \A i \in 0..Len(input) :
                (/\ FirstOpenAt(i)
                 /\ FirstFault(BodyFrom(i)) >= 0
                 /\ At(BodyFrom(i), FirstFault(BodyFrom(i))) = NL
                 /\ NoBlankPieceBefore(BodyFrom(i), FirstFault(BodyFrom(i))))
                => result = ErrorNew(<<ColumnOf(input, i + 2 + FirstFault(BodyFrom(i))),
                                       LineOf(input, i + 2 + FirstFault(BodyFrom(i)))>>,
                                     NewlineInVariableSegment)

\* C5: when a variable body closes blank, or a dot in it ends a blank
\* segment or is followed by one, tokenize fails with EmptyVariableSegment.
C5_BlankSegmentIsEmptyVariableSegment ==
    Done => \A i \in 0..Len(input) :
                (/\ FirstOpenAt(i)
                 /\ FirstFault(BodyFrom(i)) >= 0
                 /\ At(BodyFrom(i), FirstFault(BodyFrom(i))) \in {".", "}"})
                => (result.kind = "Err" /\ result.ty = EmptyVariableSegment)

\* C6: from_string succeeds exactly when no piece between the dots of s is
\* empty, then holding those pieces in order; otherwise it fails with the
\* offset at which the first empty piece begins.
PieceBeginsAt(s, i) == i = 0 \/ At(s, i - 1) = "."
PieceEmptyAt(s, i) == i = Len(s) \/ At(s, i) = "."
EmptyPieceStarts(s) == {i \in 0..Len(s) : PieceBeginsAt(s, i) /\ PieceEmptyAt(s, i)}
Least(S) == CHOOSE x \in S : \A y \in S : x <= y

RECURSIVE JoinDots(_)
JoinDots(parts) ==
    IF Len(parts) = 1 THEN parts[1]
    ELSE parts[1] \o <<".">> \o JoinDots(Tail(parts))

C6_FromStringSplitsOnDots ==
    Parsed =>
        IF EmptyPieceStarts(input) = {}
        THEN /\ result.kind = "Ok"
             /\ result.var.inner = "Segments"
             /\ Len(result.var.parts) >= 1
             /\ \A k \in 1..Len(result.var.parts) :
                    /\ result.var.parts[k] # <<>>
                    /\ \A m \in 1..Len(result.var.parts[k]) : result.var.parts[k][m] # "."
             /\ JoinDots(result.var.parts) = input
        ELSE /\ result.kind = "Err"
             /\ result.offset = Least(EmptyPieceStarts(input))

\* "a..a" has been refused at offset 2, the second dot.
C6_Witness ==
    /\ Parsed
    /\ input = <<"a", ".", ".", "a">>
    /\ result = [kind |-> "Err", offset |-> 2]

\* C7: every VariableRef of a successful tokenize holds at least one
\* segment and no empty segment.
C7_VariableSegmentsNonEmpty ==
    (Done /\ result.kind = "Ok") =>
        \A k \in 1..Len(result.tokens) :
            result.tokens[k].type = "Variable" =>
                /\ result.tokens[k].var.parts # <<>>
                /\ \A m \in 1..Len(result.tokens[k].var.parts) :
                       result.tokens[k].var.parts[m] # <<>>

\* tokenize has returned a token list that holds a VariableRef.
C7_Witness ==
    /\ Done
    /\ result.kind = "Ok"
    /\ \E k \in 1..Len(result.tokens) : result.tokens[k].type = "Variable"

\* C8: tokenize fails with NewlineInVariableSegment only when a newline lies
\* after a "{{" with no "}}" between the two.
C8_NewlineErrorOnlyInsideBody ==
    (Done /\ result.kind = "Err" /\ result.ty = NewlineInVariableSegment) =>
        \E i \in 0..Len(input), n \in 0..(Len(input) - 1) :
            /\ OpenAt(input, i)
            /\ n >= i + 2
            /\ At(input, n) = NL
            /\ \A j \in (i + 2)..(n - 2) : ~CloseAt(input, j)

\* C9: when the first fault of a variable body is a dot or the closing "}}"
\* and tokenize fails, the reported position is the line of the "{{" and
\* its column plus 2 plus the offset of the faulty byte in the body.
C9_FaultPositionCountsBodyOffset ==
    (Done /\ result.kind = "Err") =>
        \A i \in 0..Len(input) :
            (/\ FirstOpenAt(i)
             /\ FirstFault(BodyFrom(i)) >= 0
             /\ At(BodyFrom(i), FirstFault(BodyFrom(i))) \in {".", "}"})
            => result.offset = <<ColumnOf(input, i) + 2 + FirstFault(BodyFrom(i)),
                                 LineOf(input, i)>>

\* C10: no index read by tokenize or parse_template_inner is out of bounds,
\* so no call panics.
C10_NoOutOfBoundsRead == result.kind # "Panic"

====
